---- MODULE Spec2Model ----
(***************************************************************************)
(* Model of the algorithmic core of wsn-design-space-exploration:          *)
(*   - ParetoRanker          src/data/pareto_global.py                      *)
(*                           src/data/simulation/milp-mobile/               *)
(*                               pareto_analysis.py                         *)
(*   - TrajectorySynthesizer src/batch_runner/lib/parse_json_pos_dat.py     *)
(*   - ObjectiveAggregator   src/batch_runner/batch_runner.py               *)
(* Python floats are modelled by integers (exact arithmetic) plus the      *)
(* value NaN, for which every comparison is false.                         *)
(***************************************************************************)
EXTENDS Integers, Sequences, FiniteSets, TLC

VARIABLES
    \* ---- fast_nondominated_sort ----
    population,   \* the list passed in; candidates are identified by position
    input,        \* history: the population as it was when the call started
    rank,         \* p["rank"], defined only for the candidates that have the key
    writes,       \* history: how many times p["rank"] was assigned
    S,            \* dict id -> list of dominated candidates
    n,            \* dict id -> domination counter
    fronts,       \* list of fronts
    next_front,   \* front under construction
    i,            \* index of the current front (0-based, as in the code)
    cursor,       \* position of the running for loop (1-based)
    pc,           \* control point of the sort
    returned,     \* the value returned by fast_nondominated_sort
    call,         \* 1 for the first call, 2 for the call on the relabelled population
    first,        \* history: input and ranks of the first call
    \* ---- generate_positions_from_json ----
    simElements,            \* the argument: fixedMotes and mobileMotes
    file,                   \* the lines written to output_filename so far
    mote_index,             \* id of the next mobile mote
    max_steps,
    mobile_trajectories,    \* list of (mote_index, x_full, y_full, time_step)
    mobile_start_positions,
    forward,                \* history: per mote, x_full and y_full before the round trip,
                            \* total_steps, segment_distances and len(x_interp) per segment
    mote_cursor,            \* position of "for mote in mobile_motes" (1-based)
    tpc,                    \* control point of generate_positions_from_json
    raised,                 \* the exception that left the call, if any
    positions,              \* the value returned by the call
    \* ---- compute_objectives ----
    df,           \* the table read from the csv file: its columns and its rows
    per_node,     \* per_node of sum_last_minus_first, by node
    objectives,   \* the dict returned by compute_objectives
    apc,          \* control point of compute_objectives
    error,        \* the exception that left compute_objectives, if any
    \* ---- load_milp_population ----
    base_dir,     \* the case directories by name, each with the state of its objectives.json
    loaded,       \* population of load_milp_population
    case_cursor,  \* position of "for case_dir in sorted(base_dir.iterdir())" (1-based)
    lpc,          \* control point of load_milp_population
    load_error    \* the exception that left load_milp_population, if any

rankVars == <<population, input, rank, writes, S, n, fronts, next_front, i, cursor, pc,
              returned, call, first>>

trajVars == <<simElements, file, mote_index, max_steps, mobile_trajectories,
              mobile_start_positions, forward, mote_cursor, tpc, raised, positions>>

aggVars == <<df, per_node, objectives, apc, error>>

loadVars == <<base_dir, loaded, case_cursor, lpc, load_error>>

vars == <<rankVars, trajVars, aggVars, loadVars>>

\* ------------------------------------------------------------------
\* Bounds of the model
\* ------------------------------------------------------------------
MaxPop == 3
\* size of a motion configuration: one per fixed mote, one per mobile mote and
\* one per segment of a mobile mote
MaxSize == 4
\* number of rows of a measurement table
MaxRows == 3
\* number of case directories under base_dir
MaxCases == 3

\* ------------------------------------------------------------------
\* Floats
\* ------------------------------------------------------------------
\* float("nan"); every other float of the model is a non-negative integer
NaN == -1

\* IEEE comparisons: false as soon as one side is NaN
Le(x, y) == x # NaN /\ y # NaN /\ x <= y
Lt(x, y) == x # NaN /\ y # NaN /\ x < y
Ge(x, y) == x # NaN /\ y # NaN /\ x >= y
Gt(x, y) == x # NaN /\ y # NaN /\ x > y

\* ------------------------------------------------------------------
\* Pareto dominance
\* ------------------------------------------------------------------
\* dominates with throughput minimised like the other two objectives
dominatesThroughputMin(a, b) ==
    LET better_or_equal == /\ Le(a.latency, b.latency)
                           /\ Le(a.energy, b.energy)
                           /\ Le(a.throughput, b.throughput)
        strictly_better == \/ Lt(a.latency, b.latency)
                           \/ Lt(a.energy, b.energy)
                           \/ Lt(a.throughput, b.throughput)
    IN  better_or_equal /\ strictly_better

\* dominates with its two arguments exchanged
dominatesSwapped(a, b) ==
    LET better_or_equal == /\ Le(b.latency, a.latency)
                           /\ Le(b.energy, a.energy)
                           /\ Ge(b.throughput, a.throughput)
        strictly_better == \/ Lt(b.latency, a.latency)
                           \/ Lt(b.energy, a.energy)
                           \/ Gt(b.throughput, a.throughput)
    IN  better_or_equal /\ strictly_better

\* dominates with NaN compared like a number
dominatesNaNOrdered(a, b) ==
    LET better_or_equal == /\ a.latency <= b.latency
                           /\ a.energy <= b.energy
                           /\ a.throughput >= b.throughput
        strictly_better == \/ a.latency < b.latency
                           \/ a.energy < b.energy
                           \/ a.throughput > b.throughput
    IN  better_or_equal /\ strictly_better

dominates(a, b) ==
    LET better_or_equal == /\ Le(a.latency, b.latency)
                           /\ Le(a.energy, b.energy)
                           /\ Ge(a.throughput, b.throughput)
        strictly_better == \/ Lt(a.latency, b.latency)
                           \/ Lt(a.energy, b.energy)
                           \/ Gt(a.throughput, b.throughput)
    IN  better_or_equal /\ strictly_better

\* ------------------------------------------------------------------
\* Populations
\* ------------------------------------------------------------------
Obj(l, e, t) == [latency |-> l, energy |-> e, throughput |-> t]

Cand(id, origin, generation, obj) ==
    [id |-> id, origin |-> origin, generation |-> generation, objectives |-> obj]

\* the ranking scenario of the specification
ScenarioY == Cand("Y", "SimLab", 0, Obj(4, 4, 60))
ScenarioW == Cand("W", "SimLab", 0, Obj(3, 8, 55))
ScenarioX == Cand("X", "SimLab", 0, Obj(5, 5, 50))
ScenarioZ == Cand("Z", "SimLab", 0, Obj(10, 10, 10))
Scenario == <<ScenarioY, ScenarioW, ScenarioX, ScenarioZ>>

\* objective vectors of the bounded populations: the scenario's four and one
\* whose latency is NaN (an objectives artifact written from a table without
\* the latency column)
ObjectiveVectors ==
    {Obj(4, 4, 60), Obj(3, 8, 55), Obj(5, 5, 50), Obj(10, 10, 10), Obj(NaN, 4, 60)}

\* ids: load_simlab_population takes them as they are in the file, so two
\* candidates may carry the same id
Ids == {"s1", "s2"}

SeqsUpTo(D, k) == UNION {[1..m -> D] : m \in 0..k}

\* main(): population = milp_pop + simlab_pop. The first m candidates come from
\* load_milp_population (origin MILP, generation -1), the others from
\* load_simlab_population (origin SimLab, generation from the file)
Loaded(base, m) ==
    [k \in 1..Len(base) |->
        IF k <= m THEN Cand(base[k][1], "MILP", -1, base[k][2])
                  ELSE Cand(base[k][1], "SimLab", 0, base[k][2])]

Populations ==
    {Loaded(base, m) : base \in SeqsUpTo(Ids \X ObjectiveVectors, MaxPop), m \in 0..MaxPop}

\* ids that differ from one candidate to the next: the k-th candidate has the
\* k-th of them
CaseIds == <<"s1", "s2", "s3", "s4", "s5", "s6">>

\* objective vectors of the populations with distinct ids: those above, a copy
\* of one of them at a higher energy and two with throughput or energy NaN
DistinctVectors ==
    ObjectiveVectors \cup {Obj(5, 6, 50), Obj(4, 4, NaN), Obj(10, NaN, 10)}

\* the populations whose ids are pairwise distinct
DistinctPopulations ==
    {Loaded([k \in 1..Len(objs) |-> <<CaseIds[k], objs[k]>>], m) :
        objs \in SeqsUpTo(DistinctVectors, MaxPop), m \in 0..MaxPop}

\* the scenario's population in every order
ScenarioPopulations ==
    {[k \in 1..Len(Scenario) |-> Scenario[f[k]]] : f \in Permutations(1..Len(Scenario))}

Indices == 1..Len(population)

\* ------------------------------------------------------------------
\* Python dict assignment d[k] = v
\* ------------------------------------------------------------------
Put(d, k, v) == [x \in (DOMAIN d) \cup {k} |-> IF x = k THEN v ELSE d[x]]

\* ------------------------------------------------------------------
\* fast_nondominated_sort
\* ------------------------------------------------------------------
RECURSIVE DominatedBy(_, _)
\* S[pid] after the inner loop of candidate p: the q, in population order, with
\* another id that p dominates; q ranges over the first m candidates
DominatedBy(p, m) ==
    IF m = 0 THEN <<>>
    ELSE LET rest == DominatedBy(p, m - 1)
         IN  IF /\ population[p].id # population[m].id
                /\ dominates(population[p].objectives, population[m].objectives)
             THEN Append(rest, m)
             ELSE rest

\* n[pid] counting the dominating candidates of another origin, not another id
DominationCountByOrigin(p) ==
    Cardinality({q \in Indices :
        /\ population[p].origin # population[q].origin
        /\ ~dominates(population[p].objectives, population[q].objectives)
        /\ dominates(population[q].objectives, population[p].objectives)})

\* n[pid] after the inner loop of candidate p
DominationCount(p) ==
    Cardinality({q \in Indices :
        /\ population[p].id # population[q].id
        /\ ~dominates(population[p].objectives, population[q].objectives)
        /\ dominates(population[q].objectives, population[p].objectives)})

\* no call yet: population is one of the given populations
RankStartOn(populations) ==
    /\ population \in populations
    /\ input = population
    /\ rank = <<>>
    /\ writes = [k \in Indices |-> 0]
    /\ S = <<>>
    /\ n = <<>>
    /\ fronts = << <<>> >>
    /\ next_front = <<>>
    /\ i = 0
    /\ cursor = 1
    /\ pc = "scan"
    /\ returned = <<>>
    /\ call = 1
    /\ first = <<>>

RankStart == RankStartOn(Populations \cup ScenarioPopulations)

\* one iteration of "for p in population"
ScanCandidate ==
    /\ UNCHANGED <<trajVars, aggVars, loadVars>>
    /\ pc = "scan"
    /\ cursor <= Len(population)
    /\ LET p == cursor
           pid == population[p].id
           np == DominationCount(p)
       IN  /\ S' = Put(S, pid, DominatedBy(p, Len(population)))
           /\ n' = Put(n, pid, np)
           /\ IF np = 0
              THEN /\ rank' = Put(rank, p, 0)
                   /\ writes' = [writes EXCEPT ![p] = @ + 1]
                   /\ fronts' = [fronts EXCEPT ![1] = Append(@, p)]
              ELSE UNCHANGED <<rank, writes, fronts>>
    /\ cursor' = cursor + 1
    /\ UNCHANGED <<population, input, next_front, i, pc, returned, call, first>>

\* the population is exhausted: i = 0
ScanDone ==
    /\ UNCHANGED <<trajVars, aggVars, loadVars>>
    /\ pc = "scan"
    /\ cursor > Len(population)
    /\ i' = 0
    /\ pc' = "while"
    /\ UNCHANGED <<population, input, rank, writes, S, n, fronts, next_front, cursor,
                   returned, call, first>>

RECURSIVE Relax(_, _, _)
\* "for q in S[p["id"]]" from position k on; acc carries n, rank, next_front
\* (and the history of rank assignments)
Relax(qs, k, acc) ==
    IF k > Len(qs) THEN acc
    ELSE LET q == qs[k]
             qid == population[q].id
             nq == acc.n[qid] - 1
             hit == nq = 0
         IN  Relax(qs, k + 1,
                   [n |-> Put(acc.n, qid, nq),
                    rank |-> IF hit THEN Put(acc.rank, q, i + 1) ELSE acc.rank,
                    writes |-> IF hit THEN [acc.writes EXCEPT ![q] = @ + 1]
                                      ELSE acc.writes,
                    next_front |-> IF hit THEN Append(acc.next_front, q)
                                          ELSE acc.next_front])

\* "while fronts[i]": a non-empty front starts a new next_front
EnterFront ==
    /\ UNCHANGED <<trajVars, aggVars, loadVars>>
    /\ pc = "while"
    /\ fronts[i + 1] # <<>>
    /\ next_front' = <<>>
    /\ cursor' = 1
    /\ pc' = "for"
    /\ UNCHANGED <<population, input, rank, writes, S, n, fronts, i, returned,
                   call, first>>

\* one iteration of "for p in fronts[i]"
RelaxCandidate ==
    /\ UNCHANGED <<trajVars, aggVars, loadVars>>
    /\ pc = "for"
    /\ cursor <= Len(fronts[i + 1])
    /\ LET p == fronts[i + 1][cursor]
           acc == Relax(S[population[p].id], 1,
                        [n |-> n, rank |-> rank, writes |-> writes,
                         next_front |-> next_front])
       IN  /\ n' = acc.n
           /\ rank' = acc.rank
           /\ writes' = acc.writes
           /\ next_front' = acc.next_front
    /\ cursor' = cursor + 1
    /\ UNCHANGED <<population, input, S, fronts, i, pc, returned, call, first>>

\* end of the for loop: i += 1; fronts.append(next_front)
AppendFront ==
    /\ UNCHANGED <<trajVars, aggVars, loadVars>>
    /\ pc = "for"
    /\ cursor > Len(fronts[i + 1])
    /\ i' = i + 1
    /\ fronts' = Append(fronts, next_front)
    /\ pc' = "while"
    /\ UNCHANGED <<population, input, rank, writes, S, n, next_front, cursor,
                   returned, call, first>>

\* "while fronts[i]" is false: return fronts[:-1]
Return ==
    /\ UNCHANGED <<trajVars, aggVars, loadVars>>
    /\ pc = "while"
    /\ fronts[i + 1] = <<>>
    /\ returned' = SubSeq(fronts, 1, Len(fronts) - 1)
    /\ pc' = "done"
    /\ UNCHANGED <<population, input, rank, writes, S, n, fronts, next_front, i,
                   cursor, call, first>>

\* the population with every origin and generation replaced by the values
\* load_milp_population gives; ids and objectives are kept
Relabel(pop) ==
    [k \in 1..Len(pop) |-> Cand(pop[k].id, "MILP", -1, pop[k].objectives)]

\* a second call of fast_nondominated_sort, on freshly loaded candidates that
\* agree with the first population on ids and objectives only
Rerun ==
    /\ UNCHANGED <<trajVars, aggVars, loadVars>>
    /\ pc = "done"
    /\ call = 1
    /\ first' = [population |-> population, rank |-> rank]
    /\ call' = 2
    /\ population' = Relabel(population)
    /\ input' = Relabel(population)
    /\ rank' = <<>>
    /\ writes' = [k \in Indices |-> 0]
    /\ S' = <<>>
    /\ n' = <<>>
    /\ fronts' = << <<>> >>
    /\ next_front' = <<>>
    /\ i' = 0
    /\ cursor' = 1
    /\ pc' = "scan"
    /\ returned' = <<>>

\* no call of fast_nondominated_sort
RankIdle ==
    /\ population = <<>>
    /\ input = <<>>
    /\ rank = <<>>
    /\ writes = <<>>
    /\ S = <<>>
    /\ n = <<>>
    /\ fronts = <<>>
    /\ next_front = <<>>
    /\ i = 0
    /\ cursor = 0
    /\ pc = "idle"
    /\ returned = <<>>
    /\ call = 0
    /\ first = <<>>


\* ------------------------------------------------------------------
\* Rationals (exact stand-ins for the floats of the trajectory)
\* ------------------------------------------------------------------
RECURSIVE Gcd(_, _)
Gcd(a, b) == IF b = 0 THEN a ELSE Gcd(b, a % b)

Abs(a) == IF a < 0 THEN -a ELSE a

\* the rational num/den (den > 0) in lowest terms
Rat(num, den) ==
    LET g == Gcd(Abs(num), den)
    IN  <<num \div g, den \div g>>

\* f"{v:.2f}": v rounded to hundredths, ties to even; the result in hundredths
Fmt2(v) ==
    LET q == (100 * v[1]) \div v[2]
        r == (100 * v[1]) % v[2]
    IN  IF 2 * r > v[2] THEN q + 1
        ELSE IF 2 * r = v[2] THEN q + (q % 2)
        ELSE q

\* np.sqrt on the squares the model meets
Sqrt(a) == CHOOSE r \in 0..a : r * r <= a /\ a < (r + 1) * (r + 1)

Max(a, b) == IF a >= b THEN a ELSE b

\* ------------------------------------------------------------------
\* Motion expressions
\* ------------------------------------------------------------------
\* number of raw samples of a segment: np.linspace(0, 1, num=100)
Samples == 100

\* np.linspace(0, 1, num): the k-th value is (k-1)/(num-1); the model keeps
\* the numerators, the raw samples are in units of 1/(Samples-1)
linspace(num) == [k \in 1..num |-> k - 1]

\* what eval(expression, {"t": t, "np": np}) does with the expressions of the
\* model: a + b*t for the well-formed ones; for the others the exception and
\* the text it carries (SyntaxError.text is the source, the message of a
\* NameError holds the undefined name)
ExprTable ==
    ("0" :> [error |-> "none", text |-> "", a |-> 0, b |-> 0]) @@
    ("t" :> [error |-> "none", text |-> "", a |-> 0, b |-> 1]) @@
    ("3*t" :> [error |-> "none", text |-> "", a |-> 0, b |-> 3]) @@
    ("u*t" :> [error |-> "NameError", text |-> "u", a |-> 0, b |-> 0]) @@
    ("t +" :> [error |-> "SyntaxError", text |-> "t +", a |-> 0, b |-> 0])

\* evaluate_function: the array of the values (in units of 1/(Samples-1)), or
\* the exception eval raises at the first t
evaluate_function(expression, t_values) ==
    IF ExprTable[expression].error # "none"
    THEN [error |-> ExprTable[expression].error, text |-> ExprTable[expression].text,
          values |-> <<>>]
    ELSE [error |-> "none", text |-> "",
          values |-> [k \in DOMAIN t_values |->
              ExprTable[expression].a * (Samples - 1)
              + ExprTable[expression].b * t_values[k]]]

RECURSIVE SumSeq(_, _)
\* np.sum of the first m entries
SumSeq(xs, m) == IF m = 0 THEN 0 ELSE SumSeq(xs, m - 1) + xs[m]

\* np.sum(np.sqrt(np.diff(x_vals)**2 + np.diff(y_vals)**2))
SegmentDistance(x_vals, y_vals) ==
    SumSeq([k \in 1..(Len(x_vals) - 1) |->
               Sqrt((x_vals[k + 1] - x_vals[k]) * (x_vals[k + 1] - x_vals[k])
                    + (y_vals[k + 1] - y_vals[k]) * (y_vals[k + 1] - y_vals[k]))],
           Len(x_vals) - 1)

\* the body of "for x_expr, y_expr in path_segments" for one segment: x_vals,
\* y_vals and the segment's distance, or the first exception (x before y)
EvalSegment(segment) ==
    LET t_values == linspace(Samples)
        x_vals == evaluate_function(segment[1], t_values)
        y_vals == evaluate_function(segment[2], t_values)
    IN  IF x_vals.error # "none"
        THEN [error |-> x_vals.error, text |-> x_vals.text,
              x_vals |-> <<>>, y_vals |-> <<>>, distance |-> 0]
        ELSE IF y_vals.error # "none"
        THEN [error |-> y_vals.error, text |-> y_vals.text,
              x_vals |-> <<>>, y_vals |-> <<>>, distance |-> 0]
        ELSE [error |-> "none", text |-> "",
              x_vals |-> x_vals.values, y_vals |-> y_vals.values,
              distance |-> SegmentDistance(x_vals.values, y_vals.values)]

\* segments [x_expr, y_expr] that evaluate: a point and two straight legs of
\* arc length 1 and 3
GoodSegments == {<<"0", "0">>, <<"t", "0">>, <<"0", "3*t">>}

\* segments with an expression that does not evaluate
BadSegments == {<<"u*t", "0">>, <<"t", "t +">>}

Segments == GoodSegments \cup BadSegments

\* EvalSegment of every segment of the model (it depends on the segment only)
Evaluated == [segment \in Segments |-> EvalSegment(segment)]

RECURSIVE EvalSegments(_, _)
\* "for x_expr, y_expr in path_segments" over the first m segments: x_all,
\* y_all and segment_distances, or the first exception
EvalSegments(path_segments, m) ==
    IF m = 0
    THEN [error |-> "none", text |-> "", x_all |-> <<>>, y_all |-> <<>>,
          segment_distances |-> <<>>]
    ELSE LET before == EvalSegments(path_segments, m - 1)
             this == Evaluated[path_segments[m]]
         IN  IF before.error # "none" THEN before
             ELSE IF this.error # "none"
                  THEN [before EXCEPT !.error = this.error, !.text = this.text]
             ELSE [error |-> "none", text |-> "",
                   x_all |-> Append(before.x_all, this.x_vals),
                   y_all |-> Append(before.y_all, this.y_vals),
                   segment_distances |-> Append(before.segment_distances, this.distance)]

\* total_steps = max(1, int(total_duration / time_step)), with
\* total_duration = total_distance / speed; total_distance in units of
\* 1/(Samples-1)
TotalSteps(total_distance, speed, time_step) ==
    Max(1, total_distance \div ((Samples - 1) * speed * time_step))

\* seg_steps without the lower bound of 1
SegStepsNoMax(seg_dist, total_distance, total_steps) ==
    IF total_distance > 0 THEN (seg_dist * total_steps) \div total_distance
                          ELSE total_steps

\* seg_steps = max(1, int(proportion * total_steps)), proportion being
\* seg_dist / total_distance, or 1 when total_distance is 0
SegSteps(seg_dist, total_distance, total_steps) ==
    Max(1, IF total_distance > 0 THEN (seg_dist * total_steps) \div total_distance
                                 ELSE total_steps)

\* np.interp(np.linspace(0, 1, seg_steps), np.linspace(0, 1, len(vals)), vals):
\* the j-th point lies at (len-1)*(j-1)/(seg_steps-1) of the raw grid
Interp(seg_steps, vals) ==
    [j \in 1..seg_steps |->
        LET dm == Max(1, seg_steps - 1)
            u == (Len(vals) - 1) * (j - 1)
            k == u \div dm
            r == u % dm
        IN  IF r = 0 THEN Rat(vals[k + 1], Samples - 1)
            ELSE Rat(vals[k + 1] * dm + r * (vals[k + 2] - vals[k + 1]),
                     (Samples - 1) * dm)]

RECURSIVE Interpolated(_, _, _, _)
\* "for x_vals, y_vals, seg_dist in zip(...)" over the first m segments:
\* the concatenation of the interpolated segments of one coordinate
Interpolated(all, segment_distances, total_steps, m) ==
    IF m = 0 THEN <<>>
    ELSE Interpolated(all, segment_distances, total_steps, m - 1)
         \o Interp(SegSteps(segment_distances[m],
                            SumSeq(segment_distances, Len(segment_distances)),
                            total_steps),
                   all[m])

Reverse(xs) == [k \in 1..Len(xs) |-> xs[Len(xs) + 1 - k]]

\* the round trip without the reversal of the second half
RoundTripRepeated(full) == full \o full

\* np.concatenate((full, full[::-1]))
RoundTrip(full) == full \o Reverse(full)

\* ------------------------------------------------------------------
\* Motion configurations
\* ------------------------------------------------------------------
Speeds == {1, 2}

TimeSteps == {1, 2}

Mote(functionPath, speed, timeStep, isRoundTrip) ==
    [functionPath |-> functionPath, speed |-> speed, timeStep |-> timeStep,
     isRoundTrip |-> isRoundTrip]

RECURSIVE Shapes(_)
\* the numbers of segments of the mobile motes of a configuration of size at
\* most w
Shapes(w) ==
    {<<>>} \cup UNION {{<<k>> \o rest : rest \in Shapes(w - 1 - k)} : k \in 0..(w - 1)}

\* the mobile motes of a shape: mote m gets the next shape[m] segments of segs
\* and the m-th speed, time step and round-trip flag
MobileList(shape, segs, speeds, timeSteps, roundTrips) ==
    [m \in 1..Len(shape) |->
        Mote(SubSeq(segs, SumSeq(shape, m - 1) + 1, SumSeq(shape, m)),
             speeds[m], timeSteps[m], roundTrips[m])]

\* fixed motes: none, or one at (10, 20)
FixedLists == {<<>>, <<[position |-> <<10, 20>>]>>}

\* ------------------------------------------------------------------
\* generate_positions_from_json
\* ------------------------------------------------------------------
fixed_positions ==
    [k \in 1..Len(simElements.fixedMotes) |->
        <<simElements.fixedMotes[k].position[1], simElements.fixedMotes[k].position[2]>>]

mobile_motes == simElements.mobileMotes

Comment(text) == [kind |-> "comment", text |-> text]

Blank == [kind |-> "blank"]

\* f"{i} 0.00000000 {x:.2f} {y:.2f}\n", i = 0, 1, ...
FixedLine(k) ==
    [kind |-> "fixed", id |-> k - 1, t |-> 0,
     x |-> Fmt2(Rat(fixed_positions[k][1], 1)), y |-> Fmt2(Rat(fixed_positions[k][2], 1))]

\* f"{mote_id} {step * time_step:.8f} {x_full[step]:.2f} {y_full[step]:.2f}\n"
SampleLine(trajectory, step) ==
    [kind |-> "sample", id |-> trajectory.mote_id, t |-> step * trajectory.time_step,
     x |-> Fmt2(trajectory.x_full[step + 1]), y |-> Fmt2(trajectory.y_full[step + 1])]

NoException == [type |-> "none", text |-> ""]

\* no call yet: simElements is any configuration of size at most MaxSize with
\* its segments, speeds and time steps taken from the given sets
TrajStart(segments, speeds, timeSteps) ==
    /\ \E fixed \in FixedLists :
       \E shape \in Shapes(MaxSize - Len(fixed)) :
       \E segs \in [1..SumSeq(shape, Len(shape)) -> segments] :
       \E sp \in [1..Len(shape) -> speeds] :
       \E ts \in [1..Len(shape) -> timeSteps] :
       \E rt \in [1..Len(shape) -> BOOLEAN] :
          simElements = [fixedMotes |-> fixed,
                         mobileMotes |-> MobileList(shape, segs, sp, ts, rt)]
    /\ file = <<>>
    /\ mote_index = 0
    /\ max_steps = 0
    /\ mobile_trajectories = <<>>
    /\ mobile_start_positions = <<>>
    /\ forward = <<>>
    /\ mote_cursor = 1
    /\ tpc = "open"
    /\ raised = NoException
    /\ positions = <<>>

\* open the file and write the fixed positions and the two headers
WriteHeader ==
    /\ UNCHANGED <<rankVars, aggVars, loadVars>>
    /\ tpc = "open"
    /\ file' = <<Comment("# Fixed positions")>>
               \o [k \in 1..Len(fixed_positions) |-> FixedLine(k)]
               \o <<Blank, Comment("# Mobile nodes")>>
    /\ mote_index' = Len(fixed_positions)
    /\ max_steps' = 0
    /\ mobile_trajectories' = <<>>
    /\ mote_cursor' = 1
    /\ tpc' = "motes"
    /\ UNCHANGED <<simElements, mobile_start_positions, forward, raised, positions>>

\* one iteration of "for mote in mobile_motes"
ProcessMote ==
    /\ UNCHANGED <<rankVars, aggVars, loadVars>>
    /\ tpc = "motes"
    /\ mote_cursor <= Len(mobile_motes)
    /\ LET mote == mobile_motes[mote_cursor]
           path_segments == mote.functionPath
           evaluated == EvalSegments(path_segments, Len(path_segments))
           segment_distances == evaluated.segment_distances
           total_distance == SumSeq(segment_distances, Len(segment_distances))
           total_steps == TotalSteps(total_distance, mote.speed, mote.timeStep)
           x_fwd == Interpolated(evaluated.x_all, segment_distances, total_steps,
                                 Len(segment_distances))
           y_fwd == Interpolated(evaluated.y_all, segment_distances, total_steps,
                                 Len(segment_distances))
           x_full == IF mote.isRoundTrip THEN RoundTrip(x_fwd) ELSE x_fwd
           y_full == IF mote.isRoundTrip THEN RoundTrip(y_fwd) ELSE y_fwd
           points == [g \in 1..Len(segment_distances) |->
                         Len(Interp(SegSteps(segment_distances[g], total_distance,
                                             total_steps),
                                    evaluated.x_all[g]))]
       IN  IF evaluated.error # "none"
           THEN \* eval raised: the exception leaves the call
                /\ raised' = [type |-> evaluated.error, text |-> evaluated.text]
                /\ tpc' = "raised"
                /\ UNCHANGED <<max_steps, mobile_trajectories, mobile_start_positions,
                               forward, mote_index, mote_cursor>>
           ELSE IF x_full = <<>>
           THEN \* x_full[0] of an empty array
                /\ raised' = [type |-> "IndexError", text |-> "x_full[0]"]
                /\ tpc' = "raised"
                /\ max_steps' = Max(max_steps, total_steps)
                /\ forward' = Append(forward, [x |-> x_fwd, y |-> y_fwd, total_steps |-> total_steps,
                                            distances |-> segment_distances, points |-> points])
                /\ UNCHANGED <<mobile_trajectories, mobile_start_positions, mote_index,
                               mote_cursor>>
           ELSE /\ max_steps' = Max(max_steps, total_steps)
                /\ forward' = Append(forward, [x |-> x_fwd, y |-> y_fwd, total_steps |-> total_steps,
                                            distances |-> segment_distances, points |-> points])
                /\ mobile_start_positions' =
                       Append(mobile_start_positions, <<x_full[1], y_full[1]>>)
                /\ mobile_trajectories' =
                       Append(mobile_trajectories,
                              [mote_id |-> mote_index, x_full |-> x_full,
                               y_full |-> y_full, time_step |-> mote.timeStep])
                /\ mote_index' = mote_index + 1
                /\ mote_cursor' = mote_cursor + 1
                /\ UNCHANGED <<tpc, raised>>
    /\ UNCHANGED <<simElements, file, positions>>

RECURSIVE StepLines(_, _)
\* "for mote_id, x_full, y_full, time_step in mobile_trajectories" at one step,
\* over the first m trajectories
StepLines(step, m) ==
    IF m = 0 THEN <<>>
    ELSE StepLines(step, m - 1)
         \o (IF step < Len(mobile_trajectories[m].x_full)
             THEN <<SampleLine(mobile_trajectories[m], step)>>
             ELSE <<>>)

RECURSIVE TraceLines(_)
\* "for step in range(steps)": the samples of each step and a blank line
TraceLines(steps) ==
    IF steps = 0 THEN <<>>
    ELSE TraceLines(steps - 1)
         \o StepLines(steps - 1, Len(mobile_trajectories)) \o <<Blank>>

\* the merged trace, then return fixed_positions, mobile_start_positions
WriteTrace ==
    /\ UNCHANGED <<rankVars, aggVars, loadVars>>
    /\ tpc = "motes"
    /\ mote_cursor > Len(mobile_motes)
    /\ file' = file \o TraceLines(2 * max_steps)
    /\ positions' = <<fixed_positions, mobile_start_positions>>
    /\ tpc' = "done"
    /\ UNCHANGED <<simElements, mote_index, max_steps, mobile_trajectories,
                   mobile_start_positions, forward, mote_cursor, raised>>

\* no call of generate_positions_from_json
TrajIdle ==
    /\ simElements = [fixedMotes |-> <<>>, mobileMotes |-> <<>>]
    /\ file = <<>>
    /\ mote_index = 0
    /\ max_steps = 0
    /\ mobile_trajectories = <<>>
    /\ mobile_start_positions = <<>>
    /\ forward = <<>>
    /\ mote_cursor = 0
    /\ tpc = "idle"
    /\ raised = NoException
    /\ positions = <<>>

\* ------------------------------------------------------------------
\* Measurement tables
\* ------------------------------------------------------------------
\* a cell that is not a number (text); a missing cell is NaN
Text == -2

Columns == {"node", "root_time_now", "server_received", "rtt_latency", "total_energy_mj"}

Row(node, root_time_now, server_received, rtt_latency, total_energy_mj) ==
    [node |-> node, root_time_now |-> root_time_now,
     server_received |-> server_received, rtt_latency |-> rtt_latency,
     total_energy_mj |-> total_energy_mj]

\* rows that differ in node, timestamp and counter: node 1 at three
\* timestamps, node 2 at two
CounterRows ==
    {Row(1, time, counter, 2, 1) : time \in {0, 1, 2}, counter \in {3, 5, NaN, Text}}
    \cup {Row(2, time, counter, 2, 1) : time \in {0, 1}, counter \in {3, 5, NaN, Text}}

\* rows that differ in latency and energy
ObjectiveRows ==
    {Row(1, 0, 3, 2, 1), Row(1, 1, 5, 5, NaN), Row(2, 0, 5, Text, 4), Row(2, 1, 3, NaN, Text)}

\* ------------------------------------------------------------------
\* compute_objectives
\* ------------------------------------------------------------------
\* pd.to_numeric(v, errors="coerce")
to_numeric(v) == IF v = Text THEN NaN ELSE v

\* df[col] after pd.to_numeric(..., errors="coerce")
NumericColumn(rows, col) == [k \in 1..Len(rows) |-> to_numeric(rows[k][col])]

\* dropna
SkipNa(xs) == SelectSeq(xs, LAMBDA v : v # NaN)

\* mean: the mean of the numeric cells, NaN when there is none
mean(series) ==
    LET s == SkipNa([k \in 1..Len(series) |-> to_numeric(series[k])])
    IN  IF Len(s) > 0 THEN Rat(SumSeq(s, Len(s)), Len(s)) ELSE Rat(NaN, 1)

\* sum_all with an absent column counted as 0
sum_allZero(table, value_col) ==
    LET s == SkipNa(NumericColumn(table.rows, value_col))
    IN  IF value_col \notin table.columns THEN 0 ELSE SumSeq(s, Len(s))

\* sum_all: the sum of the numeric cells of the column, NaN without the column
sum_all(table, value_col) ==
    IF value_col \notin table.columns THEN NaN
    ELSE LET s == SkipNa(NumericColumn(table.rows, value_col))
         IN  SumSeq(s, Len(s))

\* row j is before row k in df.sort_values([node_col, time_col]): by node, then
\* by time, rows that tie keep their order
SortsBefore(rows, j, k) ==
    \/ rows[j].node < rows[k].node
    \/ rows[j].node = rows[k].node /\ rows[j].root_time_now < rows[k].root_time_now
    \/ rows[j].node = rows[k].node /\ rows[j].root_time_now = rows[k].root_time_now /\ j < k

\* df.sort_values([node_col, time_col])
sort_values(rows) ==
    [place \in 1..Len(rows) |->
        rows[CHOOSE k \in 1..Len(rows) :
                 Cardinality({j \in 1..Len(rows) : SortsBefore(rows, j, k)}) = place - 1]]

\* the cells of the group of a node that are not missing, in the order of the
\* sorted table
GroupCells(df_sorted, node, value_col) ==
    LET cells == [k \in 1..Len(df_sorted) |-> df_sorted[k][value_col]]
        member(k) == df_sorted[k].node = node /\ cells[k] # NaN
        places == {k \in 1..Len(df_sorted) : member(k)}
    IN  [c \in 1..Cardinality(places) |->
            cells[CHOOSE k \in places : Cardinality({j \in places : j < k}) = c - 1]]

\* g.first() without the skipping of missing cells
GroupFirstAnyCell(df_sorted, node, value_col) ==
    LET places == {k \in 1..Len(df_sorted) : df_sorted[k].node = node}
    IN  df_sorted[CHOOSE k \in places : \A j \in places : k <= j][value_col]

\* g.first(): the first cell of the group that is not missing
GroupFirst(df_sorted, node, value_col) ==
    LET cells == GroupCells(df_sorted, node, value_col)
    IN  IF cells = <<>> THEN NaN ELSE cells[1]

\* g.last(): the last cell of the group that is not missing
GroupLast(df_sorted, node, value_col) ==
    LET cells == GroupCells(df_sorted, node, value_col)
    IN  IF cells = <<>> THEN NaN ELSE cells[Len(cells)]

\* (end - start).clip(lower=0) of one node
ClipDifference(start, end) ==
    IF start = NaN \/ end = NaN THEN NaN ELSE Max(0, end - start)

\* per_node of sum_last_minus_first
PerNode(table, value_col) ==
    LET df_sorted == sort_values(table.rows)
    IN  [node \in {table.rows[k].node : k \in 1..Len(table.rows)} |->
            ClipDifference(to_numeric(GroupFirst(df_sorted, node, value_col)),
                           to_numeric(GroupLast(df_sorted, node, value_col)))]

RECURSIVE SumSkipNa(_, _)
\* per_node.sum(skipna=True) over the nodes of keys
SumSkipNa(values, keys) ==
    IF keys = {} THEN 0
    ELSE LET key == CHOOSE k \in keys : TRUE
         IN  (IF values[key] = NaN THEN 0 ELSE values[key])
             + SumSkipNa(values, keys \ {key})

\* sum_last_minus_first
sum_last_minus_first(table, value_col) ==
    IF value_col \notin table.columns THEN NaN
    ELSE SumSkipNa(PerNode(table, value_col), DOMAIN PerNode(table, value_col))

\* the columns sort_values and groupby need and the table lacks
MissingKeys(table) == {"node", "root_time_now"} \ table.columns

NoObjectives == [latency |-> Rat(NaN, 1), energy |-> NaN, throughput |-> NaN]

\* no call yet: df is any table of at most MaxRows of the given rows with one
\* of the given sets of columns
AggStart(rows, columnSets) ==
    /\ \E m \in 0..MaxRows :
       \E table \in [1..m -> rows] :
       \E columns \in columnSets :
          df = [columns |-> columns, rows |-> table]
    /\ per_node = <<>>
    /\ objectives = NoObjectives
    /\ apc = "start"
    /\ error = NoException

\* compute_objectives on df
ComputeObjectives ==
    /\ UNCHANGED <<rankVars, trajVars, loadVars>>
    /\ apc = "start"
    /\ IF "server_received" \in df.columns /\ MissingKeys(df) # {}
       THEN \* df.sort_values raises KeyError for the first missing key
            /\ error' = [type |-> "KeyError",
                         text |-> IF "node" \in MissingKeys(df) THEN "node"
                                                               ELSE "root_time_now"]
            /\ apc' = "raised"
            /\ UNCHANGED <<per_node, objectives>>
       ELSE /\ objectives' =
                 [latency |-> IF "rtt_latency" \in df.columns
                              THEN mean([k \in 1..Len(df.rows) |-> df.rows[k].rtt_latency])
                              ELSE Rat(NaN, 1),
                  energy |-> sum_all(df, "total_energy_mj"),
                  throughput |-> sum_last_minus_first(df, "server_received")]
            /\ per_node' = IF "server_received" \in df.columns
                           THEN PerNode(df, "server_received") ELSE <<>>
            /\ apc' = "done"
            /\ UNCHANGED error
    /\ UNCHANGED df

\* no call of compute_objectives
AggIdle ==
    /\ df = [columns |-> {}, rows |-> <<>>]
    /\ per_node = <<>>
    /\ objectives = NoObjectives
    /\ apc = "idle"
    /\ error = NoException

\* ------------------------------------------------------------------
\* load_milp_population
\* ------------------------------------------------------------------
\* objectives.json of a case directory: absent, not JSON, or an objectives dict
NoArtifact == [state |-> "missing", objectives |-> Obj(NaN, NaN, NaN)]

BadArtifact == [state |-> "unparseable", objectives |-> Obj(NaN, NaN, NaN)]

Artifact(obj) == [state |-> "ok", objectives |-> obj]

Artifacts == {NoArtifact, BadArtifact, Artifact(Obj(4, 4, 60)), Artifact(Obj(NaN, 4, 60))}

\* the case directories in the order of sorted(base_dir.iterdir()); the names
\* are numbers
SortedCases(dir) ==
    [place \in 1..Cardinality(DOMAIN dir) |->
        CHOOSE name \in DOMAIN dir :
            Cardinality({other \in DOMAIN dir : other < name}) = place - 1]

\* no call yet: base_dir holds any case directories named 1..MaxCases
LoadStart ==
    /\ \E names \in SUBSET (1..MaxCases) : base_dir \in [names -> Artifacts]
    /\ loaded = <<>>
    /\ case_cursor = 1
    /\ lpc = "cases"
    /\ load_error = NoException

\* one iteration of "for case_dir in sorted(base_dir.iterdir())"
LoadCase ==
    /\ UNCHANGED <<rankVars, trajVars, aggVars>>
    /\ lpc = "cases"
    /\ case_cursor <= Cardinality(DOMAIN base_dir)
    /\ LET name == SortedCases(base_dir)[case_cursor]
           obj_file == base_dir[name]
       IN  IF obj_file.state = "missing"
           THEN \* not obj_file.exists(): continue
                /\ case_cursor' = case_cursor + 1
                /\ UNCHANGED <<loaded, lpc, load_error>>
           ELSE IF obj_file.state = "unparseable"
           THEN \* json.load raises, nothing catches it
                /\ load_error' = [type |-> "JSONDecodeError", text |-> "objectives.json"]
                /\ lpc' = "raised"
                /\ UNCHANGED <<loaded, case_cursor>>
           ELSE /\ loaded' = Append(loaded,
                                    [id |-> <<"MILP", name>>, generation |-> -1,
                                     origin |-> "MILP", objectives |-> obj_file.objectives])
                /\ case_cursor' = case_cursor + 1
                /\ UNCHANGED <<lpc, load_error>>
    /\ UNCHANGED base_dir

\* return population
LoadReturn ==
    /\ UNCHANGED <<rankVars, trajVars, aggVars>>
    /\ lpc = "cases"
    /\ case_cursor > Cardinality(DOMAIN base_dir)
    /\ lpc' = "done"
    /\ UNCHANGED <<base_dir, loaded, case_cursor, load_error>>

\* no call of load_milp_population
LoadIdle ==
    /\ base_dir = <<>>
    /\ loaded = <<>>
    /\ case_cursor = 0
    /\ lpc = "idle"
    /\ load_error = NoException

\* ------------------------------------------------------------------
\* Specifications
\* ------------------------------------------------------------------
RankInit == RankStart /\ TrajIdle /\ AggIdle /\ LoadIdle

TrajInit == TrajStart(GoodSegments, Speeds, TimeSteps) /\ RankIdle /\ AggIdle /\ LoadIdle

EvalInit == TrajStart(Segments, {1}, {1}) /\ RankIdle /\ AggIdle /\ LoadIdle

ThroughputInit == AggStart(CounterRows, {Columns}) /\ RankIdle /\ TrajIdle /\ LoadIdle

ObjectivesInit == AggStart(ObjectiveRows, SUBSET Columns \ {{}}) /\ RankIdle /\ TrajIdle /\ LoadIdle

DistinctInit ==
    RankStartOn(DistinctPopulations \cup ScenarioPopulations) /\ TrajIdle /\ AggIdle /\ LoadIdle

LoadInit == LoadStart /\ RankIdle /\ TrajIdle /\ AggIdle

LoadNext == LoadCase \/ LoadReturn

RankNext ==
    \/ ScanCandidate
    \/ ScanDone
    \/ EnterFront
    \/ RelaxCandidate
    \/ AppendFront
    \/ Return

OriginNext == RankNext \/ Rerun

TrajNext ==
    \/ WriteHeader
    \/ ProcessMote
    \/ WriteTrace

\* one call of fast_nondominated_sort on any bounded population
SpecRank == RankInit /\ [][RankNext]_vars

\* two calls on populations that differ in origin and generation only
SpecOrigin == RankInit /\ [][OriginNext]_vars

\* one call of fast_nondominated_sort on any bounded population with pairwise
\* distinct ids
SpecDistinct == DistinctInit /\ [][RankNext]_vars

\* one call of generate_positions_from_json on any bounded configuration whose
\* expressions evaluate
SpecTraj == TrajInit /\ [][TrajNext]_vars

\* one call of generate_positions_from_json on any bounded configuration of
\* speed 1 and time step 1, with expressions that may not evaluate
SpecEval == EvalInit /\ [][TrajNext]_vars

\* one call of compute_objectives on any bounded table with all its columns
SpecThroughput == ThroughputInit /\ [][ComputeObjectives]_vars

\* one call of load_milp_population on any bounded base_dir
SpecLoad == LoadInit /\ [][LoadNext]_vars

\* one call of compute_objectives on any bounded table with at least one column
SpecObjectives == ObjectivesInit /\ [][ComputeObjectives]_vars

\* ------------------------------------------------------------------
\* Properties of the ranking
\* ------------------------------------------------------------------
Done == pc = "done"

\* the positions of the returned fronts that hold candidate k
Places(k) ==
    {fj \in UNION {{<<f, j>> : j \in 1..Len(returned[f])} : f \in 1..Len(returned)} :
        returned[fj[1]][fj[2]] = k}

Dom(a, b) == dominates(population[a].objectives, population[b].objectives)

\* C1: the rank of every candidate is written at most once during the run and,
\* on return, exactly once; every candidate is in exactly one returned front,
\* the one whose index is its rank.
C1_RankPartition ==
    /\ \A k \in Indices : writes[k] <= 1
    /\ Done => \A k \in Indices :
                  /\ writes[k] = 1
                  /\ k \in DOMAIN rank
                  /\ Places(k) # {}
                  /\ \A fj \in Places(k) : Places(k) = {fj} /\ fj[1] = rank[k] + 1

\* C2: on return, front 0 holds no pair a, b with dominates(a, b).
C2_FrontZeroNonDominated ==
    (Done /\ Len(returned) >= 1) =>
        \A x, y \in 1..Len(returned[1]) : ~Dom(returned[1][x], returned[1][y])

\* The dominance relation as the specification words it: a is no worse than b
\* on every objective (<= for latency and energy, >= for throughput) and
\* strictly better on one. A comparison with NaN is false.
ParetoDominates(a, b) ==
    LET oa == population[a].objectives
        ob == population[b].objectives
        NoWorse == {o \in {"latency", "energy"} : Le(oa[o], ob[o])}
                   \cup {o \in {"throughput"} : Ge(oa[o], ob[o])}
        Better == {o \in {"latency", "energy"} : Lt(oa[o], ob[o])}
                  \cup {o \in {"throughput"} : Gt(oa[o], ob[o])}
    IN  NoWorse = {"latency", "energy", "throughput"} /\ Better # {}

\* C3: on return, every candidate of rank > 0 is dominated by a candidate of
\* strictly lower rank.
C3_DominatedByLowerRank ==
    Done => \A k \in DOMAIN rank :
                rank[k] > 0 => \E j \in DOMAIN rank :
                                   rank[j] < rank[k] /\ ParetoDominates(j, k)

\* a candidate has been given a rank > 0 and the sort has returned
C3_Witness == Done /\ \E k \in DOMAIN rank : rank[k] > 0

\* the ids of the candidates of the returned front f (0-based)
FrontIds(f) == {population[returned[f + 1][j]].id : j \in 1..Len(returned[f + 1])}

\* C4: the scenario population Y, W, X, Z is ranked into exactly three fronts,
\* {Y, W}, {X} and {Z}.
C4_Scenario ==
    (Done /\ population \in ScenarioPopulations) =>
        /\ Len(returned) = 3
        /\ FrontIds(0) = {"Y", "W"}
        /\ FrontIds(1) = {"X"}
        /\ FrontIds(2) = {"Z"}
        /\ \A f \in 1..3 : Len(returned[f]) = Cardinality(FrontIds(f - 1))

C4_Witness == Done /\ population = Scenario /\ Len(returned) = 3

\* C5: the sort leaves id, origin, generation and objectives of every candidate
\* as they were passed in, and a population that differs from another one in
\* origin and generation only gets the same rank for every candidate.
C5_OriginAgnostic ==
    /\ population = input
    /\ (Done /\ call = 2) => rank = first.rank

\* both calls have returned, a candidate of rank > 0 had another origin and
\* another generation in the first call
C5_Witness ==
    /\ Done /\ call = 2
    /\ \E k \in DOMAIN rank :
          /\ rank[k] > 0
          /\ first.population[k].origin # population[k].origin
          /\ first.population[k].generation # population[k].generation
          /\ first.population[k].id = population[k].id
          /\ first.population[k].objectives = population[k].objectives

\* ------------------------------------------------------------------
\* Properties of the trajectories
\* ------------------------------------------------------------------
\* the mote of the k-th built trajectory
MoteOf(k) == mobile_motes[k]

\* C6: the trajectory built for a round-trip mote is twice as long as its
\* forward leg, and its point at index length-1-i equals its point at index i
\* for every i of the forward half (x and y).
C6_RoundTripMirror ==
    \A k \in 1..Len(mobile_trajectories) :
        MoteOf(k).isRoundTrip =>
            LET x_full == mobile_trajectories[k].x_full
                y_full == mobile_trajectories[k].y_full
                length == Len(x_full)
                half == Len(forward[k].x)
            IN  /\ length = 2 * half
                /\ Len(y_full) = length
                /\ \A j \in 1..half :
                      /\ x_full[length + 1 - j] = x_full[j]
                      /\ y_full[length + 1 - j] = y_full[j]
                      /\ x_full[j] = forward[k].x[j]
                      /\ y_full[j] = forward[k].y[j]

\* the call has returned with the trajectory of a round-trip mote whose forward
\* leg has three samples that differ
C6_Witness ==
    /\ tpc = "done"
    /\ \E k \in 1..Len(mobile_trajectories) :
          /\ MoteOf(k).isRoundTrip
          /\ Len(forward[k].x) = 3
          /\ forward[k].y[1] # forward[k].y[3]

\* C7: with speed > 0 and timeStep > 0 and any sequence of segments that
\* evaluate, the forward trajectory of every processed mote has at least one
\* sample and the call raises no indexing error.
C7_ForwardHasSample ==
    /\ raised.type # "IndexError"
    /\ \A k \in 1..Len(forward) : Len(forward[k].x) >= 1 /\ Len(forward[k].y) >= 1

\* the expressions of the mote being processed that do not evaluate
FailingExpressions ==
    IF mote_cursor \in 1..Len(mobile_motes)
    THEN {e \in UNION {{mobile_motes[mote_cursor].functionPath[g][1],
                        mobile_motes[mote_cursor].functionPath[g][2]} :
                       g \in 1..Len(mobile_motes[mote_cursor].functionPath)} :
             ExprTable[e].error # "none"}
    ELSE {}

\* the call has left the loop at a mote one of whose expressions does not
\* evaluate
EvaluationFailed == tpc = "raised" /\ FailingExpressions # {}

\* C10: when an expression of a mote does not evaluate, the call fails with an
\* EvaluationError that names the expression, and no trajectory is built or
\* written for that mote.
C10_EvaluationError ==
    EvaluationFailed =>
        /\ raised.type = "EvaluationError"
        /\ raised.text \in FailingExpressions
        /\ Len(mobile_trajectories) < mote_cursor
        /\ \A l \in 1..Len(file) :
              file[l].kind = "sample" => file[l].id # mote_index

\* ------------------------------------------------------------------
\* Properties of the objectives
\* ------------------------------------------------------------------
TableNodes == {df.rows[k].node : k \in 1..Len(df.rows)}

RowsOf(node) == {k \in 1..Len(df.rows) : df.rows[k].node = node}

\* the counter cells of a node at its smallest and at its largest timestamp
CellsAtSmallest(node) ==
    {df.rows[k].server_received : k \in {j \in RowsOf(node) :
        \A g \in RowsOf(node) : df.rows[j].root_time_now <= df.rows[g].root_time_now}}

CellsAtLargest(node) ==
    {df.rows[k].server_received : k \in {j \in RowsOf(node) :
        \A g \in RowsOf(node) : df.rows[j].root_time_now >= df.rows[g].root_time_now}}

\* max(0, last - first); not a number when one of the two is not
Clamped(start, end) ==
    IF start \in {NaN, Text} \/ end \in {NaN, Text} THEN NaN
    ELSE IF end > start THEN end - start ELSE 0

RECURSIVE Total(_, _)
\* the sum of the contributions of the nodes that are numbers
Total(contribution, nodes) ==
    IF nodes = {} THEN 0
    ELSE LET node == CHOOSE v \in nodes : TRUE
         IN  (IF contribution[node] = NaN THEN 0 ELSE contribution[node])
             + Total(contribution, nodes \ {node})

\* what a contribution adds to the sum: nothing when it is not a number
Counted(v) == IF v = NaN THEN 0 ELSE v

\* C8: the throughput is the sum over the nodes of max(0, last - first), first
\* and last being counter values of the node at its smallest and at its
\* largest timestamp, whatever the order of the rows; no contribution is
\* negative.
C8_LastMinusFirst ==
    apc = "done" =>
        /\ DOMAIN per_node = TableNodes
        /\ \A node \in TableNodes :
              /\ \E start \in CellsAtSmallest(node) : \E end \in CellsAtLargest(node) :
                    Counted(per_node[node]) = Counted(Clamped(start, end))
              /\ Counted(per_node[node]) >= 0
        /\ objectives.throughput = Total(per_node, TableNodes)

\* the rows of a node whose counter cell is not missing
Observed(node) == {k \in RowsOf(node) : df.rows[k].server_received # NaN}

\* row j comes before row k: earlier timestamp, or same timestamp and earlier
\* in the table
Earlier(j, k) ==
    \/ df.rows[j].root_time_now < df.rows[k].root_time_now
    \/ df.rows[j].root_time_now = df.rows[k].root_time_now /\ j < k

\* max(0, last - first) over the observed cells of a node, in timestamp order
\* with ties in table order
ObservedContribution(node) ==
    IF Observed(node) = {} THEN NaN
    ELSE LET start == CHOOSE k \in Observed(node) :
                          \A j \in Observed(node) \ {k} : Earlier(k, j)
             end == CHOOSE k \in Observed(node) :
                        \A j \in Observed(node) \ {k} : Earlier(j, k)
         IN  Clamped(df.rows[start].server_received, df.rows[end].server_received)

\* C8 (amended): first and last are the first and the last cell of the node
\* that is not missing, in timestamp order with ties kept in table order; a
\* node without such a cell, or whose first or last such cell is not a number,
\* contributes nothing; no contribution is negative.
C8_LastMinusFirstObserved ==
    apc = "done" =>
        /\ DOMAIN per_node = TableNodes
        /\ \A node \in TableNodes :
              /\ per_node[node] = ObservedContribution(node)
              /\ per_node[node] = NaN \/ per_node[node] >= 0
        /\ objectives.throughput = Total(per_node, TableNodes)

\* the call has returned for a table whose rows are out of timestamp order,
\* with a node whose counter decreases and a node whose counter grows
C8_Witness ==
    /\ apc = "done"
    /\ \E j, k \in 1..Len(df.rows) :
          /\ j < k
          /\ df.rows[j].node = df.rows[k].node
          /\ df.rows[j].root_time_now > df.rows[k].root_time_now
          /\ df.rows[j].server_received = 3
          /\ df.rows[k].server_received = 5
          /\ per_node[df.rows[j].node] = 0
    /\ objectives.throughput = 0

\* the objective columns the table lacks
AbsentObjectives == {"rtt_latency", "total_energy_mj", "server_received"} \ df.columns

\* C9: when an objective column is absent the call does not fail; an absent
\* latency column gives latency NaN, an absent counter column throughput NaN
\* and an absent energy column energy 0.
C9_AbsentColumns ==
    (apc \in {"done", "raised"} /\ AbsentObjectives # {}) =>
        /\ apc = "done"
        /\ "rtt_latency" \in AbsentObjectives => objectives.latency = Rat(NaN, 1)
        /\ "server_received" \in AbsentObjectives => objectives.throughput = NaN
        /\ "total_energy_mj" \in AbsentObjectives => objectives.energy = 0

\* C9 (amended): the call fails only with the counter column present and the
\* node or the timestamp column absent; when it returns, an absent latency
\* column gives latency NaN, an absent counter column throughput NaN and an
\* absent energy column energy NaN.
C9_AbsentColumnsNaN ==
    /\ apc = "raised" =>
          /\ "server_received" \in df.columns
          /\ ~({"node", "root_time_now"} \subseteq df.columns)
          /\ error.type = "KeyError"
    /\ apc = "done" =>
          /\ "server_received" \in df.columns => {"node", "root_time_now"} \subseteq df.columns
          /\ "rtt_latency" \in AbsentObjectives => objectives.latency = Rat(NaN, 1)
          /\ "server_received" \in AbsentObjectives => objectives.throughput = NaN
          /\ "total_energy_mj" \in AbsentObjectives => objectives.energy = NaN

\* the call has returned for a table with rows and none of the three objective
\* columns
C9_Witness ==
    /\ apc = "done"
    /\ df.rows # <<>>
    /\ AbsentObjectives = {"rtt_latency", "total_energy_mj", "server_received"}
    /\ objectives = NoObjectives

\* ------------------------------------------------------------------
\* Properties of the loader
\* ------------------------------------------------------------------
\* the names of the case directories whose objectives.json is well formed
WellFormed == {name \in DOMAIN base_dir : base_dir[name].state = "ok"}

\* C11: a case whose objectives.json is missing or unparseable never aborts the
\* load; the loader returns a candidate for exactly every case with a well
\* formed objectives.json.
C11_LoaderSkips ==
    /\ lpc # "raised"
    /\ lpc = "done" =>
          /\ Len(loaded) = Cardinality(WellFormed)
          /\ \A name \in WellFormed :
                \E k \in 1..Len(loaded) :
                    /\ loaded[k].id = <<"MILP", name>>
                    /\ loaded[k].objectives = base_dir[name].objectives

\* ------------------------------------------------------------------
\* Properties of the merged trace
\* ------------------------------------------------------------------
\* the lines of the file after "# Mobile nodes"
TraceLineNumbers == (Len(fixed_positions) + 4)..Len(file)

\* the number of global steps written: each ends with a blank line
GlobalSteps == Cardinality({l \in TraceLineNumbers : file[l].kind = "blank"})

\* the global step a line of the trace belongs to (0-based)
StepOf(l) == Cardinality({b \in TraceLineNumbers : b < l /\ file[b].kind = "blank"})

\* the samples of a mote written at a global step
EmittedAt(id, step) ==
    {l \in TraceLineNumbers :
        file[l].kind = "sample" /\ file[l].id = id /\ StepOf(l) = step}

RECURSIVE MaxForward(_)
\* the largest number of samples of a forward leg among the first m motes
MaxForward(m) == IF m = 0 THEN 0 ELSE Max(MaxForward(m - 1), Len(forward[m].x))

\* C12: the merged trace has 2 * max_steps global steps, max_steps being the
\* largest number of samples of a forward leg; at global step s a mote emits
\* one sample iff s is less than the length of its trajectory, with elapsed
\* time s x its own timeStep.
C12_MergedTrace ==
    tpc = "done" =>
        /\ GlobalSteps = 2 * MaxForward(Len(forward))
        /\ \A k \in 1..Len(mobile_trajectories) :
           \A step \in 0..(2 * MaxForward(Len(forward)) - 1) :
              LET emitted == EmittedAt(mobile_trajectories[k].mote_id, step)
              IN  /\ Cardinality(emitted) =
                        IF step < Len(mobile_trajectories[k].x_full) THEN 1 ELSE 0
                  /\ \A l \in emitted :
                        file[l].t = step * mobile_trajectories[k].time_step

\* round(num / den), a tie going to the even integer
Round(num, den) ==
    LET q == num \div den
        r == num % den
    IN  IF 2 * r > den THEN q + 1
        ELSE IF 2 * r = den THEN q + (q % 2)
        ELSE q

\* total arc length of the path of the k-th processed mote
ArcLength(k) == SumSeq(forward[k].distances, Len(forward[k].distances))

\* max(1, floor((total_arc_length / speed) / timeStep)); the arc lengths are in
\* units of 1/(Samples-1)
BudgetOf(k) ==
    Max(1, ArcLength(k) \div ((Samples - 1) * MoteOf(k).speed * MoteOf(k).timeStep))

\* C13: every segment is resampled to max(1, round(total_steps *
\* segment_arc_length / total_arc_length)) points, total_steps being max(1,
\* floor((total_arc_length / speed) / timeStep)); with total arc length 0 the
\* proportion is 1.
C13_SegmentStepsRounded ==
    \A k \in 1..Len(forward) : \A g \in 1..Len(forward[k].points) :
        forward[k].points[g] =
            Max(1, IF ArcLength(k) > 0
                   THEN Round(BudgetOf(k) * forward[k].distances[g], ArcLength(k))
                   ELSE BudgetOf(k))

\* C13 (amended): every segment is resampled to max(1, floor(total_steps *
\* segment_arc_length / total_arc_length)) points, total_steps being max(1,
\* floor((total_arc_length / speed) / timeStep)); with total arc length 0 the
\* proportion is 1.
C13_SegmentStepsFloored ==
    \A k \in 1..Len(forward) : \A g \in 1..Len(forward[k].points) :
        /\ forward[k].total_steps = BudgetOf(k)
        /\ forward[k].points[g] =
              Max(1, IF ArcLength(k) > 0
                     THEN (BudgetOf(k) * forward[k].distances[g]) \div ArcLength(k)
                     ELSE BudgetOf(k))

\* a mote has been processed whose path has a segment with a share of the
\* steps that rounds up but is cut down, and a segment whose share is below 1
C13_Witness ==
    \E k \in 1..Len(forward) : \E g, h \in 1..Len(forward[k].points) :
        /\ ArcLength(k) > 0
        /\ forward[k].points[g] = 1
        /\ Round(BudgetOf(k) * forward[k].distances[g], ArcLength(k)) = 2
        /\ forward[k].points[h] = 1
        /\ BudgetOf(k) * forward[k].distances[h] < ArcLength(k)

\* C14: every sample of the trajectory of every mote is written to the merged
\* trace exactly once, in index order; the bound 2 * max_steps cuts no
\* trajectory short.
C14_NoTruncation ==
    tpc = "done" =>
        \A k \in 1..Len(mobile_trajectories) :
            LET trajectory == mobile_trajectories[k]
            IN  /\ \A step \in 0..(Len(trajectory.x_full) - 1) :
                      /\ Cardinality(EmittedAt(trajectory.mote_id, step)) = 1
                      /\ \A l \in EmittedAt(trajectory.mote_id, step) :
                            file[l] = SampleLine(trajectory, step)
                /\ Cardinality({l \in TraceLineNumbers :
                                   file[l].kind = "sample" /\ file[l].id = trajectory.mote_id})
                       = Len(trajectory.x_full)

\* ------------------------------------------------------------------
\* Properties of the ranking of populations with distinct ids
\* ------------------------------------------------------------------
DistinctIds == \A a, b \in Indices : a # b => population[a].id # population[b].id

\* C15: on return for a population with pairwise distinct ids, a dominates b
\* implies rank(a) < rank(b); no front holds a pair one of which dominates the
\* other; every candidate of rank i+1 is dominated by a candidate of rank i.
C15_DominanceOrdersRanks ==
    (Done /\ DistinctIds) =>
        /\ DOMAIN rank = Indices
        /\ \A a, b \in Indices : ParetoDominates(a, b) => rank[a] < rank[b]
        /\ \A f \in 1..Len(returned) : \A x, y \in 1..Len(returned[f]) :
              ~ParetoDominates(returned[f][x], returned[f][y])
        /\ \A k \in Indices :
              rank[k] > 0 => \E j \in Indices :
                                 rank[j] = rank[k] - 1 /\ ParetoDominates(j, k)

\* the sort has returned three fronts for a population with distinct ids in
\* which a candidate of the last front is dominated by one of the first
C15_Witness ==
    /\ Done /\ DistinctIds
    /\ Len(population) = 3
    /\ Len(returned) = 3
    /\ \E a, b \in Indices : rank[a] = 0 /\ rank[b] = 2 /\ ParetoDominates(a, b)

\* the candidates with an objective that is NaN
Undefined ==
    {k \in Indices : \E o \in {"latency", "energy", "throughput"} :
        population[k].objectives[o] = NaN}

\* C16: a candidate with an objective that is NaN neither dominates nor is
\* dominated by any candidate, and on return it has rank 0 and is in front 0.
C16_UndefinedInFrontZero ==
    /\ \A k \in Undefined : \A j \in Indices : ~Dom(k, j) /\ ~Dom(j, k)
    /\ Done => \A k \in Undefined :
                  /\ k \in DOMAIN rank
                  /\ rank[k] = 0
                  /\ Len(returned) >= 1
                  /\ \E x \in 1..Len(returned[1]) : returned[1][x] = k

\* the sort has returned for a population with a candidate whose latency is
\* NaN, next to candidates of rank 0 and of rank 1 with the same id or another
C16_Witness ==
    /\ Done
    /\ Undefined # {}
    /\ \E a, b \in Indices \ Undefined :
          a \in DOMAIN rank /\ b \in DOMAIN rank /\ rank[a] = 0 /\ rank[b] = 1
====
